---------------------------- MODULE Spec2Model ----------------------------
(***************************************************************************)
(* A model of node-mssql-mcp-server: the configuration loader, the         *)
(* connection pool cache (getPool and the close wrapper), the query safety *)
(* classifier (isSafeQuery), input validation, the data access operations  *)
(* and listDatabases.                                                      *)
(*                                                                         *)
(* JavaScript strings are sequences of one-character strings, so that      *)
(* trimming, case conversion, length bounds and regular expressions are    *)
(* computed character by character.                                        *)
(***************************************************************************)
EXTENDS Integers, Sequences, FiniteSets, TLC

VARIABLES
    dbConfigs,          \* config/dbConfig.js: the loaded configurations, in insertion order
    connectionStatus,   \* config/dbConfig.js: key -> {lastConnected, lastError, status}
    pools,              \* db/connection.js: poolKey -> pool instance (0: no entry)
    created,            \* every sql.ConnectionPool constructed so far, by instance number
    task,               \* the calls in flight: one record per task
    readOnly,           \* process.env.IS_READONLY === "true"
    resourceCache,      \* modules/resources.js: cacheKey -> the cached table list
    timers,             \* cacheKey -> the pending setTimeout callbacks that delete it
    query,              \* the query text handed to isSafeQuery
    verdict,            \* what isSafeQuery returned for it ("none": not yet called)
    listed,             \* what the last listDatabases() call put in its text
    http                \* server/index.js: the HTTP request in hand and its response

cfgVars  == <<dbConfigs, connectionStatus, readOnly>>
resVars  == <<resourceCache, timers>>
safeVars == <<query, verdict, listed, http>>
vars == <<dbConfigs, connectionStatus, pools, created, task, readOnly,
          resourceCache, timers, query, verdict, listed, http>>

---------------------------------------------------------------------------
(* Strings *)

LowerChars == <<"a","b","c","d","e","f","g","h","i","j","k","l","m",
                "n","o","p","q","r","s","t","u","v","w","x","y","z">>
UpperChars == <<"A","B","C","D","E","F","G","H","I","J","K","L","M",
                "N","O","P","Q","R","S","T","U","V","W","X","Y","Z">>
DigitChars == <<"0","1","2","3","4","5","6","7","8","9">>

Range(s) == {s[i] : i \in DOMAIN s}

IndexIn(c, s) == IF \E i \in DOMAIN s : s[i] = c
                 THEN CHOOSE i \in DOMAIN s : s[i] = c
                 ELSE 0

\* String.prototype.toUpperCase / toLowerCase, one character
UpperOf == [c \in Range(LowerChars) |-> UpperChars[IndexIn(c, LowerChars)]]
LowerOf == [c \in Range(UpperChars) |-> LowerChars[IndexIn(c, UpperChars)]]
UpperChar(c) == IF c \in DOMAIN UpperOf THEN UpperOf[c] ELSE c
LowerChar(c) == IF c \in DOMAIN LowerOf THEN LowerOf[c] ELSE c

toUpperCase(s) == SubSeq([i \in DOMAIN s |-> UpperChar(s[i])], 1, Len(s))
toLowerCase(s) == SubSeq([i \in DOMAIN s |-> LowerChar(s[i])], 1, Len(s))

\* The characters the regular expression class \s and String.prototype.trim remove
IsSpace(c) == c \in {" ", "\t", "\n", "\r"}

\* The characters of the class [a-zA-Z0-9_]
IsWordChar(c) == c \in Range(LowerChars) \cup Range(UpperChars) \cup Range(DigitChars) \cup {"_"}

\* The JavaScript value undefined (an omitted argument); never a string
Undefined == <<"<undefined>">>

\* JavaScript truthiness of a string-or-undefined value
Truthy(v) == v # Undefined /\ v # <<>>

Repeat(c, n) == SubSeq([i \in 1..n |-> c], 1, n)


maindb      == <<"m","a","i","n","d","b">>
reportingdb == <<"r","e","p","o","r","t","i","n","g","d","b">>
undefinedStr == <<"u","n","d","e","f","i","n","e","d">>
defaultStr  == <<"d","e","f","a","u","l","t">>

\* The property name a value is converted to when it indexes an object
PropertyKey(v) == IF v = Undefined THEN undefinedStr ELSE v

---------------------------------------------------------------------------
(* config/dbConfig.js: the configuration loader.                           *)
(* An environment is a record: multi, the MSSQL_<NAME>_DATABASE variables  *)
(* in the order of process.env, each with the variables of its prefix, and *)
(* the unprefixed MSSQL_* variables. "" is an unset variable; port 0 is an *)
(* unset port.                                                             *)

DefaultPort == 1433

MkConfig(key, server, port, user, password, database, encrypt, trust) ==
    [key |-> key, server |-> server, port |-> port, user |-> user,
     password |-> password, database |-> database,
     encrypt |-> encrypt, trustServerCertificate |-> trust]

Or(a, b) == IF a # "" THEN a ELSE b      \* a || b on strings

detectConfigMode(env) ==
    IF Len(env.multi) > 0 THEN "multi"
    ELSE IF env.MSSQL_SERVER # "" \/ env.MSSQL_DATABASE # "" THEN "single"
    ELSE "throw"

\* loadSingleDatabaseConfig: {maindb: config}, or <<>> when it throws
loadSingleDatabaseConfig(env) ==
    IF env.MSSQL_USER = "" \/ env.MSSQL_PASSWORD = "" \/ env.MSSQL_DATABASE = ""
    THEN <<>>
    ELSE << MkConfig(maindb, Or(env.MSSQL_SERVER, "localhost"), env.MSSQL_PORT,
                     env.MSSQL_USER, env.MSSQL_PASSWORD, env.MSSQL_DATABASE,
                     env.MSSQL_ENCRYPT = "true",
                     env.MSSQL_TRUST_SERVER_CERTIFICATE # "false") >>

\* dbConfigs[dbKey] = config on an object kept as a sequence in insertion
\* order: an existing key keeps its place, a new key is appended
SetKey(cfgs, c) ==
    IF \E i \in DOMAIN cfgs : cfgs[i].key = c.key
    THEN [i \in DOMAIN cfgs |-> IF cfgs[i].key = c.key THEN c ELSE cfgs[i]]
    ELSE Append(cfgs, c)

\* One iteration of the loop of loadMultiDatabaseConfigs
LoadEntry(env, e, cfgs) ==
    LET dbKey    == toLowerCase(e.name)
        user     == Or(e.user, env.MSSQL_USER)
        password == Or(e.password, env.MSSQL_PASSWORD)
    IN  IF user # "" /\ password # "" /\ e.database # ""
        THEN SetKey(cfgs, MkConfig(dbKey, Or(e.server, Or(env.MSSQL_SERVER, "localhost")),
                                   e.port, user, password, e.database,
                                   Or(e.encrypt, env.MSSQL_ENCRYPT) = "true",
                                   Or(e.trust, env.MSSQL_TRUST_SERVER_CERTIFICATE) # "false"))
        ELSE cfgs

RECURSIVE LoadEntries(_, _)
LoadEntries(env, n) ==
    IF n = 0 THEN <<>> ELSE LoadEntry(env, env.multi[n], LoadEntries(env, n - 1))

loadMultiDatabaseConfigs(env) == LoadEntries(env, Len(env.multi))

\* <<>> stands for the thrown error that ends the process at startup
loadDatabaseConfigs(env) ==
    CASE detectConfigMode(env) = "multi"  -> loadMultiDatabaseConfigs(env)
      [] detectConfigMode(env) = "single" -> loadSingleDatabaseConfig(env)
      [] OTHER -> <<>>

Keys(cfgs) == [i \in DOMAIN cfgs |-> cfgs[i].key]      \* Object.keys(dbConfigs)

\* What a lookup that finds no configuration yields (undefined), and the
\* error getDbConfig throws
NoConfig    == [key |-> Undefined]
ThrowConfig == [key |-> Undefined, error |-> "Invalid dbKey"]

\* dbConfigs[k]: the configuration under property k, or undefined
Lookup(cfgs, k) ==
    IF \E i \in DOMAIN cfgs : cfgs[i].key = PropertyKey(k)
    THEN cfgs[CHOOSE i \in DOMAIN cfgs : cfgs[i].key = PropertyKey(k)]
    ELSE NoConfig

\* The initial connectionStatus: one entry per configured key
InitialStatus(cfgs) ==
    [k \in Range(Keys(cfgs)) |->
        [lastConnected |-> "null", lastError |-> "null", status |-> "initialized"]]

\* No listDatabases() call has returned yet
NotListed == [called |-> FALSE]

\* No HTTP request in hand.  route: the route of the request; next: the
\* configured key GET /health calls getPool for next; status, body: the
\* response; databases: the databases member of a health response; res: how
\* the handler's operation ended; arg: the number of the request's uri,
\* query or table among the inputs; qsKey, bodyKey: the dbKey of the query
\* string and of the body.
HttpIdle == [pc |-> "idle", route |-> "none", next |-> 0, status |-> 0, body |-> "none",
             databases |-> <<>>, res |-> "none", arg |-> 0,
             qsKey |-> Undefined, bodyKey |-> Undefined]

\* getDbConfig(dbKey): the configuration, or the thrown error
getDbConfig(cfgs, dbKey) ==
    IF Truthy(dbKey)
    THEN IF Lookup(cfgs, toLowerCase(dbKey)) = NoConfig THEN ThrowConfig
         ELSE Lookup(cfgs, toLowerCase(dbKey))
    ELSE cfgs[1]

\* A name that connectionStatus = {} inherits from Object.prototype with a
\* truthy value (as it does toString, valueOf, hasOwnProperty, ...)
constructorKey == <<"c","o","n","s","t","r","u","c","t","o","r">>
ObjectPrototypeKeys == {constructorKey}

\* updateConnectionStatus(dbKey, status, error): the map after the call.
\* connectionStatus[dbKey] is truthy for an entry of the map and for an
\* inherited member; the fields read from an inherited member are undefined.
updateConnectionStatus(cs, dbKey, status, error) ==
    IF PropertyKey(dbKey) \in DOMAIN cs
    THEN [cs EXCEPT ![PropertyKey(dbKey)] =
            [lastConnected |-> IF status = "connected" THEN "now" ELSE @.lastConnected,
             lastError     |-> IF error # "null" THEN error ELSE @.lastError,
             status        |-> status]]
    ELSE IF PropertyKey(dbKey) \in ObjectPrototypeKeys
    THEN [k \in DOMAIN cs \cup {PropertyKey(dbKey)} |->
            IF k \in DOMAIN cs THEN cs[k]
            ELSE [lastConnected |-> IF status = "connected" THEN "now" ELSE "undefined",
                  lastError     |-> IF error # "null" THEN error ELSE "undefined",
                  status        |-> status]]
    ELSE cs

---------------------------------------------------------------------------
(* db/connection.js: the pool cache *)

MaxPools   == 3     \* pools constructed in one run
MaxCallers == 2     \* calls in flight at once

Tasks == 1..MaxCallers

\* An object used as a map: the entry under k (0: none), set, delete
Get(m, k)    == IF k \in DOMAIN m THEN m[k] ELSE 0
Put(m, k, v) == [x \in DOMAIN m \cup {k} |-> IF x = k THEN v ELSE m[x]]
Delete(m, k) == [x \in DOMAIN m \ {k} |-> m[x]]
EmptyMap     == [x \in {} |-> 0]

\* A task slot with no call in flight.  arg: the number of the call's other
\* argument among the inputs of its operation; pool: the instance the call
\* made or was given; again: the call is the caller's second in a row for
\* its key; gp: the getPool calls the operation made; sent: the statements it
\* sent to the database; res: how the call ended.
IdleTask == [op |-> "none", pc |-> "idle", dbKey |-> Undefined, arg |-> 0,
             pool |-> 0, again |-> FALSE, gp |-> 0, sent |-> 0, res |-> "none"]

\* getPool line 13: dbConfigs[dbKey] || Object.values(dbConfigs)[0]
ConfigOf(cfgs, dbKey) ==
    IF Lookup(cfgs, dbKey) # NoConfig THEN Lookup(cfgs, dbKey)
    ELSE IF Len(cfgs) > 0 THEN cfgs[1]
    ELSE NoConfig

\* getPool line 18: dbKey || "default"
PoolKeyOf(dbKey) == IF Truthy(dbKey) THEN dbKey ELSE defaultStr

\* getPool lines 13-27 and 31, the part that runs with the call, to the
\* await of pool.connect(), the return or the throw.  rec is the calling
\* task's record; the task goes on at pc `after` when the call returns and
\* at pc `thrown` when it throws.
GetPoolCallNoCache(t, rec, after, thrown) ==
    LET config  == ConfigOf(dbConfigs, rec.dbKey)
        poolKey == PoolKeyOf(rec.dbKey)
    IN  /\ Len(created) < MaxPools
        /\ created' = Append(created, [poolKey |-> poolKey, config |-> config.key,
                                       state |-> "connecting"])
        /\ task' = [task EXCEPT ![t] = [rec EXCEPT !.pc = "connecting", !.gp = rec.gp + 1,
                                                   !.pool = Len(created) + 1]]

GetPoolCall(t, rec, after, thrown) ==
    LET config  == ConfigOf(dbConfigs, rec.dbKey)
        poolKey == PoolKeyOf(rec.dbKey)
    IN  IF config = NoConfig
        THEN /\ task' = [task EXCEPT ![t] = [rec EXCEPT !.pc = thrown, !.pool = 0, !.gp = rec.gp + 1,
                                                        !.res = "config"]]
             /\ UNCHANGED created
        ELSE IF Get(pools, poolKey) # 0
        THEN /\ task' = [task EXCEPT ![t] = [rec EXCEPT !.pc = after, !.gp = rec.gp + 1,
                                                        !.pool = Get(pools, poolKey)]]
             /\ UNCHANGED created
        ELSE /\ Len(created) < MaxPools
             /\ created' = Append(created, [poolKey |-> poolKey, config |-> config.key,
                                            state |-> "connecting"])
             /\ task' = [task EXCEPT ![t] = [rec EXCEPT !.pc = "connecting", !.gp = rec.gp + 1,
                                                        !.pool = Len(created) + 1]]

\* getPool lines 27-31: pool.connect() resolved
ConnectOK(t, after) ==
    LET p == task[t].pool
    IN  /\ task[t].pc = "connecting"
        /\ created' = [created EXCEPT ![p].state = "open"]
        /\ pools' = Put(pools, created[p].poolKey, p)
        /\ task' = [task EXCEPT ![t].pc = after]
        /\ UNCHANGED <<cfgVars, resVars, safeVars>>

\* An instance whose connect failed: nothing refers to it any more
FailedPool == [poolKey |-> <<>>, config |-> <<>>, state |-> "failed"]

\* getPool with line 28 moved before the await: the instance is stored
\* although its connect failed
ConnectFailCached(t, thrown) ==
    LET p == task[t].pool
    IN  /\ task[t].pc = "connecting"
        /\ created' = [created EXCEPT ![p].state = "failed"]
        /\ pools' = Put(pools, created[p].poolKey, p)
        /\ task' = [task EXCEPT ![t].pc = thrown, ![t].res = "connect"]
        /\ UNCHANGED <<cfgVars, resVars, safeVars>>

\* getPool line 27: pool.connect() rejected, the error leaves getPool
ConnectFail(t, thrown) ==
    LET p == task[t].pool
    IN  /\ task[t].pc = "connecting"
        /\ created' = [created EXCEPT ![p] = FailedPool]
        /\ task' = [task EXCEPT ![t].pc = thrown, ![t].pool = 0, ![t].res = "connect"]
        /\ UNCHANGED <<cfgVars, resVars, safeVars, pools>>

\* A close wrapper that forgets line 24, delete pools[poolKey]
PoolCloseNoEvict(p) ==
    /\ created[p].state \in {"open", "closed"}
    /\ created' = [created EXCEPT ![p].state = "closed"]
    /\ UNCHANGED <<cfgVars, resVars, safeVars, pools, task>>

\* getPool lines 23-26: the close wrapper of instance p, called by a holder
PoolClose(p) ==
    /\ created[p].state \in {"open", "closed"}
    /\ pools' = Delete(pools, created[p].poolKey)
    /\ created' = [created EXCEPT ![p].state = "closed"]
    /\ UNCHANGED <<cfgVars, resVars, safeVars, task>>

---------------------------------------------------------------------------
(* The environments the process is started in *)

MAINDB      == <<"M","A","I","N","D","B">>
REPORTINGDB == <<"R","E","P","O","R","T","I","N","G","D","B">>
nosuchdb    == <<"n","o","s","u","c","h","d","b">>

EnvBase ==
    [multi |-> <<>>, MSSQL_SERVER |-> "", MSSQL_PORT |-> 0, MSSQL_USER |-> "",
     MSSQL_PASSWORD |-> "", MSSQL_DATABASE |-> "", MSSQL_ENCRYPT |-> "",
     MSSQL_TRUST_SERVER_CERTIFICATE |-> ""]

\* The variables MSSQL_<name>_DATABASE, _USER, _PASSWORD (the others unset)
Entry(name, user, password, database) ==
    [name |-> name, server |-> "", port |-> 0, user |-> user, password |-> password,
     database |-> database, encrypt |-> "", trust |-> ""]

\* Single-database mode: MSSQL_USER, MSSQL_PASSWORD, MSSQL_DATABASE=foo
EnvSingle ==
    [EnvBase EXCEPT !.MSSQL_USER = "sa", !.MSSQL_PASSWORD = "s3cret",
                    !.MSSQL_DATABASE = "foo"]

\* Multi-database mode: MSSQL_MAINDB_*, then MSSQL_REPORTINGDB_*
EnvMulti ==
    [EnvBase EXCEPT !.multi = << Entry(MAINDB, "sa", "s3cret", "main"),
                                 Entry(REPORTINGDB, "reporter", "pw2", "reports") >>]

PoolEnvs == {EnvMulti}

\* The keys getPool is called with: the data access operations pass an
\* omitted key or any key of the validated character set, the health check
\* the configured keys.  PoolDbKeys are the keys of the concurrent callers,
\* AllDbKeys those of the single caller of SpecKeys.
AllDbKeys == {Undefined, maindb, reportingdb, REPORTINGDB, nosuchdb}
PoolDbKeys == {Undefined, reportingdb}

---------------------------------------------------------------------------
(* Spec: callers of getPool and of the close wrapper *)

Init ==
    /\ dbConfigs \in {loadDatabaseConfigs(e) : e \in PoolEnvs}
    /\ connectionStatus = InitialStatus(dbConfigs)
    /\ pools = EmptyMap
    /\ created = <<>>
    /\ task = [t \in Tasks |-> IdleTask]
    /\ readOnly = FALSE
    /\ resourceCache = EmptyMap
    /\ timers = EmptyMap
    /\ query = <<>>
    /\ verdict = "none"
    /\ listed = NotListed
    /\ http = HttpIdle

\* A caller, nothing of its own in flight, calls getPool(dbKey)
StartGetPool(t, dbKey) ==
    /\ task[t].pc \in {"idle", "returned", "threw"}
    /\ GetPoolCall(t, [IdleTask EXCEPT !.op = "getPool", !.dbKey = dbKey],
                   "returned", "threw")
    /\ UNCHANGED <<cfgVars, resVars, safeVars, pools>>

\* The caller, its call having returned, calls getPool again with the same key
Again(t) ==
    /\ task[t].op = "getPool"
    /\ task[t].pc = "returned"
    /\ GetPoolCall(t, [task[t] EXCEPT !.again = TRUE, !.gp = 0], "returned", "threw")
    /\ UNCHANGED <<cfgVars, resVars, safeVars, pools>>

Next ==
    \/ \E t \in Tasks, k \in PoolDbKeys : StartGetPool(t, k)
    \/ \E t \in Tasks : Again(t)
    \/ \E t \in Tasks : task[t].op = "getPool" /\ ConnectOK(t, "returned")
    \/ \E t \in Tasks : task[t].op = "getPool" /\ ConnectFail(t, "threw")
    \/ \E p \in DOMAIN created : PoolClose(p)

Spec == Init /\ [][Next]_vars

---------------------------------------------------------------------------
(* SpecKeys: one caller at a time, every kind of key, both environments *)

InitKeys ==
    /\ dbConfigs \in {loadDatabaseConfigs(e) : e \in {EnvSingle, EnvMulti}}
    /\ connectionStatus = InitialStatus(dbConfigs)
    /\ pools = EmptyMap
    /\ created = <<>>
    /\ task = [t \in Tasks |-> IdleTask]
    /\ readOnly = FALSE
    /\ resourceCache = EmptyMap
    /\ timers = EmptyMap
    /\ query = <<>>
    /\ verdict = "none"
    /\ listed = NotListed
    /\ http = HttpIdle

NextKeys ==
    \/ \E k \in AllDbKeys : StartGetPool(1, k)
    \/ Again(1)
    \/ task[1].op = "getPool" /\ ConnectOK(1, "returned")
    \/ task[1].op = "getPool" /\ ConnectFail(1, "threw")
    \/ \E p \in DOMAIN created : PoolClose(p)

SpecKeys == InitKeys /\ [][NextKeys]_vars

---------------------------------------------------------------------------
(* The pool cache: claims C6 to C10 *)

\* The cache entry of the key of task t's call
EntryOf(t) == Get(pools, PoolKeyOf(task[t].dbKey))

\* C6: a caller whose getPool(key) call returned instance P calls
\* getPool(key) again; while the key's cache entry is still P (no close has
\* removed it and no other call has stored another instance), the second
\* call returns P itself, constructs no pool and leaves the cache alone.
SecondCallSamePool ==
    [][\A t \in Tasks :
          (Again(t) /\ EntryOf(t) = task[t].pool)
              => /\ task'[t].pc = "returned"
                 /\ task'[t].pool = task[t].pool
                 /\ created' = created
                 /\ pools' = pools]_vars

\* A second call in a row has returned the cached instance
SecondCallReturned ==
    \E t \in Tasks : /\ task[t].again
                     /\ task[t].pc = "returned"
                     /\ EntryOf(t) = task[t].pool
                     /\ created[task[t].pool].state = "open"

\* C7: close() on an open instance leaves no cache entry under its key; no
\* cache entry ever holds a closed instance; and no getPool call yields a
\* closed instance: after a close the next call constructs a new one.
CloseEvictsEntry ==
    [][/\ \A p \in DOMAIN created :
             (created[p].state = "open" /\ created'[p].state = "closed")
                 => Get(pools', created[p].poolKey) = 0
       /\ \A k \in DOMAIN pools' : created'[pools'[k]].state = "open"
       /\ \A t \in Tasks :
             (task'[t] # task[t] /\ task'[t].pool # 0)
                 => created'[task'[t].pool].state \in {"connecting", "open"}]_vars

\* After a close, a getPool call for the same key has returned a new instance
FreshPoolAfterClose ==
    \E t \in Tasks, p \in DOMAIN created :
        /\ created[p].state = "closed"
        /\ task[t].pc = "returned"
        /\ task[t].pool > p
        /\ created[task[t].pool].poolKey = created[p].poolKey
        /\ created[task[t].pool].state = "open"
        /\ EntryOf(t) = task[t].pool

\* C8: at most one open pool exists for any key, in every reachable state
AtMostOneOpenPoolPerKey ==
    \A p, q \in DOMAIN created :
        (/\ created[p].state = "open"
         /\ created[q].state = "open"
         /\ created[p].poolKey = created[q].poolKey) => p = q

\* A key is configured when, lower-cased, it names a configuration
Configured(dbKey) == Lookup(dbConfigs, toLowerCase(dbKey)) # NoConfig

\* C9: getPool with a non-empty key that is not configured throws and
\* constructs no pool and adds no cache entry
UnknownKeyRejected ==
    \A t \in Tasks :
        (/\ task[t].op = "getPool"
         /\ Truthy(task[t].dbKey)
         /\ ~Configured(task[t].dbKey))
            => /\ task[t].pc = "threw"
               /\ task[t].pool = 0
               /\ PoolKeyOf(task[t].dbKey) \notin DOMAIN pools

\* C10: a call whose key differs only in letter case from a configured key
\* is served by that key's configuration and that key's cache entry
KeyIsCaseInsensitive ==
    \A t \in Tasks :
        (/\ task[t].op = "getPool"
         /\ task[t].pool # 0
         /\ Truthy(task[t].dbKey)
         /\ Configured(task[t].dbKey))
            => /\ created[task[t].pool].config = toLowerCase(task[t].dbKey)
               /\ created[task[t].pool].poolKey = toLowerCase(task[t].dbKey)

---------------------------------------------------------------------------
(* modules/tools.js: isSafeQuery.                                          *)
(* A regular expression is a sequence of elements: a literal, \s*, \s+, or *)
(* an alternation of two expressions.  All of them carry the flag i.       *)

Lit(str)  == [kind |-> "lit", str |-> str]
WsStar    == [kind |-> "ws*"]
WsPlus    == [kind |-> "ws+"]
Alt(a, b) == [kind |-> "alt", a |-> a, b |-> b]

\* Equality of two characters under the flag i
SameCharIgnoreCase(c, d) == c = d \/ UpperChar(c) = UpperChar(d)

LitAt(str, s, p) ==
    /\ p + Len(str) - 1 <= Len(s)
    /\ \A j \in 1..Len(str) : SameCharIgnoreCase(s[p + j - 1], str[j])

\* The positions a match of expression pat can end at (the position after
\* its last character) when it starts at one of the positions of P
RECURSIVE MatchEnds(_, _, _)
MatchEnds(pat, s, P) ==
    IF pat = <<>> THEN P
    ELSE LET e == Head(pat)
             Q == CASE e.kind = "lit" -> {p + Len(e.str) : p \in {x \in P : LitAt(e.str, s, x)}}
                    [] e.kind = "ws*" ->
                         {q \in 1..(Len(s) + 1) :
                             \/ q \in P
                             \/ \E p \in P : p < q /\ \A j \in p..(q - 1) : IsSpace(s[j])}
                    [] e.kind = "ws+" ->
                         {q \in 1..(Len(s) + 1) :
                             \E p \in P : p < q /\ \A j \in p..(q - 1) : IsSpace(s[j])}
                    [] e.kind = "alt" -> MatchEnds(e.a, s, P) \cup MatchEnds(e.b, s, P)
         IN  IF Q = {} THEN {} ELSE MatchEnds(Tail(pat), s, Q)

\* RegExp.prototype.test of an expression that is not anchored
RegexTest(pat, s) == MatchEnds(pat, s, 1..(Len(s) + 1)) # {}

\* String.prototype.trim
RECURSIVE TrimLeft(_)
TrimLeft(s) == IF s # <<>> /\ IsSpace(Head(s)) THEN TrimLeft(Tail(s)) ELSE s
RECURSIVE TrimRight(_)
TrimRight(s) ==
    IF s # <<>> /\ IsSpace(s[Len(s)]) THEN TrimRight(SubSeq(s, 1, Len(s) - 1)) ELSE s
trim(s) == TrimLeft(TrimRight(s))

\* tools.js lines 77-93
unsafePatterns ==
    << <<WsStar, Lit(<<"D","R","O","P">>), WsPlus>>,
       <<WsStar, Lit(<<"T","R","U","N","C","A","T","E">>), WsPlus>>,
       <<WsStar, Lit(<<"A","L","T","E","R">>), WsPlus, Lit(<<"R","O","L","E">>), WsPlus>>,
       <<WsStar, Lit(<<"C","R","E","A","T","E">>), WsPlus, Lit(<<"L","O","G","I","N">>), WsPlus>>,
       <<WsStar, Lit(<<"A","L","T","E","R">>), WsPlus, Lit(<<"L","O","G","I","N">>), WsPlus>>,
       <<WsStar, Lit(<<"C","R","E","A","T","E">>), WsPlus, Lit(<<"U","S","E","R">>), WsPlus>>,
       <<WsStar, Lit(<<"A","L","T","E","R">>), WsPlus, Lit(<<"U","S","E","R">>), WsPlus>>,
       <<WsStar, Lit(<<"E","X","E","C">>), Alt(<<WsPlus>>, <<WsStar, Lit(<<"(">>)>>)>>,
       <<WsStar, Lit(<<"E","X","E","C","U","T","E">>), Alt(<<WsPlus>>, <<WsStar, Lit(<<"(">>)>>)>>,
       <<WsStar, Lit(<<"x","p","_","c","m","d","s","h","e","l","l">>)>>,
       <<WsStar, Lit(<<"s","p","_","c","o","n","f","i","g","u","r","e">>)>>,
       <<WsStar, Lit(<<"R","E","C","O","N","F","I","G","U","R","E">>), WsStar>>,
       <<WsStar, Lit(<<"G","R","A","N","T">>), WsPlus>>,
       <<WsStar, Lit(<<"R","E","V","O","K","E">>), WsPlus>>,
       <<WsStar, Lit(<<"D","E","N","Y">>), WsPlus>> >>

\* tools.js line 96
readOnlyPatterns ==
    << <<WsStar, Lit(<<"I","N","S","E","R","T">>), WsPlus>>,
       <<WsStar, Lit(<<"U","P","D","A","T","E">>), WsPlus>>,
       <<WsStar, Lit(<<"D","E","L","E","T","E">>), WsPlus>> >>

\* isSafeQuery(query) with process.env.IS_READONLY === "true" as ro
isSafeQuery(q, ro) ==
    LET upperQuery == toUpperCase(trim(q))
        patterns   == IF ro THEN unsafePatterns \o readOnlyPatterns ELSE unsafePatterns
    IN  \A i \in DOMAIN patterns : ~RegexTest(patterns[i], upperQuery)

---------------------------------------------------------------------------
(* SpecSafe: isSafeQuery on the queries made of up to MaxPieces pieces *)

MaxPieces == 3

QueryPieces ==
    { <<"D","R","O","P">>,
      <<"d","r","o","p">>,
      <<"E","X","E","C">>,
      <<"E","X","E","C","U","T","E">>,
      <<"x","p","_","c","m","d","s","h","e","l","l">>,
      <<"R","E","C","O","N","F","I","G","U","R","E">>,
      <<"D","E","L","E","T","E">>,
      <<"A","L","T","E","R">>,
      <<"R","O","L","E">>,
      <<" ">>,
      <<"\n">>,
      <<"(">>,
      <<"/","*","*","/">>,
      <<"t">> }

RECURSIVE Concat(_)
Concat(ss) == IF ss = <<>> THEN <<>> ELSE Head(ss) \o Concat(Tail(ss))

Queries == {Concat(ps) : ps \in UNION {[1..n -> QueryPieces] : n \in 0..MaxPieces}}

InitSafe ==
    /\ dbConfigs = loadDatabaseConfigs(EnvSingle)
    /\ connectionStatus = InitialStatus(dbConfigs)
    /\ pools = EmptyMap
    /\ created = <<>>
    /\ task = [t \in Tasks |-> IdleTask]
    /\ readOnly \in BOOLEAN
    /\ resourceCache = EmptyMap
    /\ timers = EmptyMap
    /\ query \in Queries
    /\ verdict = "none"
    /\ listed = NotListed
    /\ http = HttpIdle

\* isSafeQuery(query) is called
Classify ==
    /\ verdict = "none"
    /\ verdict' = IF isSafeQuery(query, readOnly) THEN "safe" ELSE "unsafe"
    /\ UNCHANGED <<cfgVars, resVars, pools, created, task, query, listed, http>>

NextSafe == Classify

SpecSafe == InitSafe /\ [][NextSafe]_vars

\* The text contains the token, whatever the case of its letters
ContainsIgnoreCase(s, tok) == \E p \in 1..Len(s) : LitAt(tok, s, p)

\* The denied tokens as the specification names them
DeniedTokens ==
    { <<"D","R","O","P">>,
      <<"T","R","U","N","C","A","T","E">>,
      <<"A","L","T","E","R"," ","R","O","L","E">>,
      <<"C","R","E","A","T","E"," ","L","O","G","I","N">>,
      <<"A","L","T","E","R"," ","L","O","G","I","N">>,
      <<"C","R","E","A","T","E"," ","U","S","E","R">>,
      <<"A","L","T","E","R"," ","U","S","E","R">>,
      <<"E","X","E","C">>,
      <<"E","X","E","C","U","T","E">>,
      <<"X","P","_","C","M","D","S","H","E","L","L">>,
      <<"S","P","_","C","O","N","F","I","G","U","R","E">>,
      <<"R","E","C","O","N","F","I","G","U","R","E">>,
      <<"G","R","A","N","T">>,
      <<"R","E","V","O","K","E">>,
      <<"D","E","N","Y">> }

WriteTokens ==
    { <<"I","N","S","E","R","T">>, <<"U","P","D","A","T","E">>, <<"D","E","L","E","T","E">> }

\* C2: isSafeQuery returns false for every query that contains one of the
\* denied tokens anywhere, in any letter case, whatever precedes or follows
DeniedTokenIsUnsafe ==
    (verdict # "none" /\ \E tok \in DeniedTokens : ContainsIgnoreCase(query, tok))
        => verdict = "unsafe"

\* The second half of C3: with read-only mode off, a query free of the
\* denied tokens is classified safe
NoDeniedTokenIsSafe ==
    (/\ verdict # "none"
     /\ ~readOnly
     /\ \A tok \in DeniedTokens : ~ContainsIgnoreCase(query, tok))
        => verdict = "safe"

---------------------------------------------------------------------------
(* validation/index.js *)

MaxQueryLen == 10000
MaxTableLen == 128
MaxDbKeyLen == 50

IsString(v) == v # Undefined

\* sqlQuerySchema: query
sqlQueryOK(q) == IsString(q) /\ Len(q) >= 1 /\ Len(q) <= MaxQueryLen

\* tableNameSchema: table
tableNameOK(tb) ==
    /\ IsString(tb) /\ Len(tb) >= 1 /\ Len(tb) <= MaxTableLen
    /\ \A i \in DOMAIN tb : IsWordChar(tb[i])

\* dbKeySchema: dbKey
dbKeyOK(k) ==
    /\ IsString(k) /\ Len(k) >= 1 /\ Len(k) <= MaxDbKeyLen
    /\ \A i \in DOMAIN k : IsWordChar(k[i])

UriPrefix == <<"m","s","s","q","l",":","/","/">>
UriSuffix == <<"/","d","a","t","a">>

\* resourceUriSchema: /^mssql:\/\/[a-zA-Z0-9_]+\/data$/
resourceUriOK(u) ==
    /\ IsString(u)
    /\ Len(u) > Len(UriPrefix) + Len(UriSuffix)
    /\ SubSeq(u, 1, Len(UriPrefix)) = UriPrefix
    /\ SubSeq(u, Len(u) - Len(UriSuffix) + 1, Len(u)) = UriSuffix
    /\ \A i \in (Len(UriPrefix) + 1)..(Len(u) - Len(UriSuffix)) : IsWordChar(u[i])

\* The operations validate dbKey only if (dbKey): tools.js lines 118-124 and
\* 184-190, resources.js lines 19-21 and 60-62
OptionalDbKeyOK(k) == Truthy(k) => dbKeyOK(k)

---------------------------------------------------------------------------
(* The inputs of the data access operations *)

QueryInputs ==
    << Undefined, <<>>,
       <<"S","E","L","E","C","T"," ","1">>,
       <<"D","R","O","P"," ","T","A","B","L","E"," ","f","o","o">>,
       <<"d","e","l","e","t","e","[","t","]">>,
       Repeat("a", MaxQueryLen), Repeat("a", MaxQueryLen + 1) >>

TableInputs ==
    << Undefined, <<>>, <<"O","r","d","e","r","s">>, <<"t",";","x">>,
       Repeat("t", MaxTableLen), Repeat("t", MaxTableLen + 1) >>

UriInputs ==
    << Undefined,
       <<"m","s","s","q","l",":","/","/","O","r","d","e","r","s","/","d","a","t","a">>,
       <<"m","s","s","q","l",":","/","/","t",";","x","/","d","a","t","a">>,
       <<"h","t","t","p",":","/","/","O","r","d","e","r","s","/","d","a","t","a">>,
       <<"m","s","s","q","l",":","/","/","/","d","a","t","a">> >>

OpDbKeys ==
    { Undefined, <<>>, reportingdb, <<"d","b","-","1">>,
      Repeat("k", MaxDbKeyLen), Repeat("k", MaxDbKeyLen + 1) }

\* What the validation and the classifier make of each input
QueryValid == [i \in DOMAIN QueryInputs |-> sqlQueryOK(QueryInputs[i])]
QuerySafe  == [i \in DOMAIN QueryInputs |->
                 [ro \in BOOLEAN |-> isSafeQuery(QueryInputs[i], ro)]]
TableValid == [i \in DOMAIN TableInputs |-> tableNameOK(TableInputs[i])]
UriValid   == [i \in DOMAIN UriInputs |-> resourceUriOK(UriInputs[i])]

\* Whether query i holds one of INSERT, UPDATE, DELETE
QueryWrites == [i \in DOMAIN QueryInputs |->
                  \E tok \in WriteTokens : ContainsIgnoreCase(QueryInputs[i], tok)]

---------------------------------------------------------------------------
(* modules/tools.js and modules/resources.js: the data access operations.  *)
(* A call runs to its first await with the step that makes it; res tells   *)
(* how it ended: "ok", "cached", "blocked", "validation", "config",        *)
(* "connect", "query", "notfound".                                         *)

MaxTimers == 2      \* pending cache timers per cache key

Ready(t) == task[t].pc = "idle"

\* The call ends at once with outcome res, at pc "done" (a result or an
\* error result is returned) or "threw" (an error is thrown to the caller)
EndCall(t, rec, pc, res) ==
    /\ task' = [task EXCEPT ![t] = [rec EXCEPT !.pc = pc, !.res = res]]
    /\ UNCHANGED created

\* executeSql with the safety check of lines 127-144 left out
ExecuteSqlCallUnchecked(t, i, dbKey) ==
    LET rec == [IdleTask EXCEPT !.op = "executeSql", !.dbKey = dbKey, !.arg = i]
    IN  /\ Ready(t)
        /\ IF ~(QueryValid[i] /\ OptionalDbKeyOK(dbKey))
           THEN EndCall(t, rec, "done", "validation")
           ELSE GetPoolCall(t, rec, "gotPool", "done")
        /\ UNCHANGED <<cfgVars, resVars, safeVars, pools>>

\* executeSql(query, dbKey), lines 115-146
ExecuteSqlCall(t, i, dbKey) ==
    LET rec == [IdleTask EXCEPT !.op = "executeSql", !.dbKey = dbKey, !.arg = i]
    IN  /\ Ready(t)
        /\ IF ~(QueryValid[i] /\ OptionalDbKeyOK(dbKey))
           THEN EndCall(t, rec, "done", "validation")
           ELSE IF ~QuerySafe[i][readOnly]
           THEN EndCall(t, rec, "done", "blocked")
           ELSE GetPoolCall(t, rec, "gotPool", "done")
        /\ UNCHANGED <<cfgVars, resVars, safeVars, pools>>

\* getTableSchema(table, dbKey), lines 181-194
GetTableSchemaCall(t, i, dbKey) ==
    LET rec == [IdleTask EXCEPT !.op = "getTableSchema", !.dbKey = dbKey, !.arg = i]
    IN  /\ Ready(t)
        /\ IF ~(TableValid[i] /\ OptionalDbKeyOK(dbKey))
           THEN EndCall(t, rec, "done", "validation")
           ELSE GetPoolCall(t, rec, "gotPool", "done")
        /\ UNCHANGED <<cfgVars, resVars, safeVars, pools>>

\* readResource(uri, dbKey), lines 56-71: every error is thrown again
ReadResourceCall(t, i, dbKey) ==
    LET rec == [IdleTask EXCEPT !.op = "readResource", !.dbKey = dbKey, !.arg = i]
    IN  /\ Ready(t)
        /\ IF ~(UriValid[i] /\ OptionalDbKeyOK(dbKey))
           THEN EndCall(t, rec, "threw", "validation")
           ELSE GetPoolCall(t, rec, "gotPool", "threw")
        /\ UNCHANGED <<cfgVars, resVars, safeVars, pools>>

\* listResources(dbKey), lines 12-23: the cache is looked up first
ListResourcesCall(t, dbKey) ==
    LET rec == [IdleTask EXCEPT !.op = "listResources", !.dbKey = dbKey]
    IN  /\ Ready(t)
        /\ IF PoolKeyOf(dbKey) \in DOMAIN resourceCache
           THEN EndCall(t, rec, "done", "cached")
           ELSE IF ~OptionalDbKeyOK(dbKey)
           THEN EndCall(t, rec, "done", "validation")
           ELSE GetPoolCall(t, rec, "gotPool", "done")
        /\ UNCHANGED <<cfgVars, resVars, safeVars, pools>>

\* Where an operation's error goes: readResource throws, the others return
Thrown(op) == IF op = "readResource" THEN "threw" ELSE "done"

\* pool.request().query(...): the statement is sent on an open pool; a pool
\* closed in the meantime rejects the request
SendStatement(t) ==
    /\ task[t].pc = "gotPool"
    /\ task' = [task EXCEPT ![t] =
                  IF created[task[t].pool].state = "open"
                  THEN [@ EXCEPT !.pc = "querying", !.sent = @ + 1]
                  ELSE [@ EXCEPT !.pc = Thrown(task[t].op), !.res = "query"]]
    /\ UNCHANGED <<cfgVars, resVars, safeVars, pools, created>>

\* The answer handled without the test of tools.js line 204
StatementOKUnchecked(t, rows) ==
    /\ task[t].pc = "querying"
    /\ task[t].op # "getTableSchema" => rows = 1
    /\ task[t].op = "listResources" => Get(timers, PoolKeyOf(task[t].dbKey)) < MaxTimers
    /\ task' = [task EXCEPT ![t].pc = "done", ![t].res = "ok"]
    /\ IF task[t].op = "listResources"
       THEN /\ resourceCache' = Put(resourceCache, PoolKeyOf(task[t].dbKey), 1)
            /\ timers' = Put(timers, PoolKeyOf(task[t].dbKey),
                             Get(timers, PoolKeyOf(task[t].dbKey)) + 1)
       ELSE UNCHANGED resVars
    /\ UNCHANGED <<cfgVars, safeVars, pools, created>>

\* The statement is answered with `rows` rows
StatementOK(t, rows) ==
    /\ task[t].pc = "querying"
    /\ task[t].op # "getTableSchema" => rows = 1
    /\ task[t].op = "listResources" => Get(timers, PoolKeyOf(task[t].dbKey)) < MaxTimers
    /\ task' = [task EXCEPT ![t].pc = "done",
                            ![t].res = IF task[t].op = "getTableSchema" /\ rows = 0
                                       THEN "notfound" ELSE "ok"]
    /\ IF task[t].op = "listResources"
       THEN /\ resourceCache' = Put(resourceCache, PoolKeyOf(task[t].dbKey), 1)
            /\ timers' = Put(timers, PoolKeyOf(task[t].dbKey),
                             Get(timers, PoolKeyOf(task[t].dbKey)) + 1)
       ELSE UNCHANGED resVars
    /\ UNCHANGED <<cfgVars, safeVars, pools, created>>

\* listResources with a catch block that stores the empty list it returns
StatementFailCached(t) ==
    /\ task[t].pc = "querying"
    /\ task' = [task EXCEPT ![t].pc = Thrown(task[t].op), ![t].res = "query"]
    /\ IF task[t].op = "listResources"
       THEN resourceCache' = Put(resourceCache, PoolKeyOf(task[t].dbKey), 0)
       ELSE UNCHANGED resourceCache
    /\ UNCHANGED <<cfgVars, timers, safeVars, pools, created>>

\* The statement fails in the database
StatementFail(t) ==
    /\ task[t].pc = "querying"
    /\ task' = [task EXCEPT ![t].pc = Thrown(task[t].op), ![t].res = "query"]
    /\ UNCHANGED <<cfgVars, resVars, safeVars, pools, created>>

\* resources.js line 39: a timer set for cache key k fires, 5 minutes later
TimerFire(k) ==
    /\ Get(timers, k) > 0
    /\ resourceCache' = Delete(resourceCache, k)
    /\ timers' = IF timers[k] = 1 THEN Delete(timers, k) ELSE Put(timers, k, timers[k] - 1)
    /\ UNCHANGED <<cfgVars, safeVars, pools, created, task>>

\* The caller has taken the outcome of its call
Return(t) ==
    /\ task[t].pc \in {"done", "threw"}
    /\ task' = [task EXCEPT ![t] = IdleTask]
    /\ UNCHANGED <<cfgVars, resVars, safeVars, pools, created>>

IsOp(t) == task[t].op \in {"executeSql", "getTableSchema", "readResource", "listResources"}

InitOps ==
    /\ dbConfigs = loadDatabaseConfigs(EnvMulti)
    /\ connectionStatus = InitialStatus(dbConfigs)
    /\ pools = EmptyMap
    /\ created = <<>>
    /\ task = [t \in Tasks |-> IdleTask]
    /\ readOnly \in BOOLEAN
    /\ resourceCache = EmptyMap
    /\ timers = EmptyMap
    /\ query = <<>>
    /\ verdict = "none"
    /\ listed = NotListed
    /\ http = HttpIdle

\* One request at a time
NextOps ==
    \/ \E i \in DOMAIN QueryInputs, k \in OpDbKeys : ExecuteSqlCall(1, i, k)
    \/ \E i \in DOMAIN TableInputs, k \in OpDbKeys : GetTableSchemaCall(1, i, k)
    \/ \E i \in DOMAIN UriInputs, k \in OpDbKeys : ReadResourceCall(1, i, k)
    \/ \E k \in OpDbKeys : ListResourcesCall(1, k)
    \/ IsOp(1) /\ ConnectOK(1, "gotPool")
    \/ IsOp(1) /\ ConnectFail(1, Thrown(task[1].op))
    \/ SendStatement(1)
    \/ \E rows \in 0..1 : StatementOK(1, rows)
    \/ StatementFail(1)
    \/ Return(1)
    \/ \E k \in DOMAIN timers : TimerFire(k)

SpecOps == InitOps /\ [][NextOps]_vars

---------------------------------------------------------------------------
(* The claims about the data access operations *)

\* C1: an executeSql call whose validated query the classifier denies ends
\* with the "blocked" error result; it makes no getPool call and sends no
\* statement.
DeniedQueryBlockedBeforePool ==
    \A t \in Tasks :
        ( /\ task[t].op = "executeSql"
          /\ QueryValid[task[t].arg] /\ OptionalDbKeyOK(task[t].dbKey)
          /\ ~QuerySafe[task[t].arg][readOnly] )
            => /\ task[t].pc = "done" /\ task[t].res = "blocked"
               /\ task[t].gp = 0 /\ task[t].sent = 0 /\ task[t].pool = 0

\* A denied query has been answered
DeniedQueryAnswered ==
    \E t \in Tasks :
        /\ task[t].op = "executeSql" /\ task[t].pc = "done" /\ task[t].res = "blocked"
        /\ QueryValid[task[t].arg] /\ ~QuerySafe[task[t].arg][readOnly]

\* C3 (first half): in read-only mode executeSql sends no statement that
\* holds INSERT, UPDATE or DELETE.
ReadOnlySendsNoWrite ==
    readOnly =>
        \A t \in Tasks :
            (task[t].op = "executeSql" /\ task[t].sent > 0) => ~QueryWrites[task[t].arg]

\* The input of call t fails its schema
ArgInvalid(t) ==
    CASE task[t].op = "executeSql"     -> ~QueryValid[task[t].arg]
      [] task[t].op = "getTableSchema" -> ~TableValid[task[t].arg]
      [] task[t].op = "readResource"   -> ~UriValid[task[t].arg]
      [] OTHER                         -> FALSE

DbKeyInvalid(t) == IsString(task[t].dbKey) /\ ~dbKeyOK(task[t].dbKey)

\* C4: a call of the four operations whose input fails validation makes no
\* getPool call and sends no statement.
InvalidInputRejectedBeforePool ==
    \A t \in Tasks :
        (IsOp(t) /\ (ArgInvalid(t) \/ DbKeyInvalid(t)))
            => task[t].gp = 0 /\ task[t].sent = 0

---------------------------------------------------------------------------
(* modules/tools.js: listDatabases *)

\* The copy of one configuration that lines 246-255 make, with the password
\* copied too, and as the code makes it
SanitizedWithPassword(c) ==
    [key |-> c.key, server |-> c.server,
     port |-> IF c.port # 0 THEN c.port ELSE DefaultPort,
     database |-> c.database, user |-> c.user, password |-> c.password,
     encrypt |-> c.encrypt, trustServerCertificate |-> c.trustServerCertificate]

Sanitized(c) ==
    [key |-> c.key, server |-> c.server,
     port |-> IF c.port # 0 THEN c.port ELSE DefaultPort,
     database |-> c.database, user |-> c.user,
     encrypt |-> c.encrypt, trustServerCertificate |-> c.trustServerCertificate]

\* The object listDatabases() serialises into its text, lines 264-274
listDatabases(cfgs, cs) ==
    [called             |-> TRUE,
     availableDatabases |-> Keys(cfgs),
     configurations     |-> [i \in DOMAIN cfgs |-> Sanitized(cfgs[i])],
     connectionStatus   |-> cs,
     count              |-> Len(cfgs),
     defaultDatabase    |-> IF cfgs = <<>> THEN Undefined ELSE cfgs[1].key]

\* The environments of SpecList: one database whose password is or is not
\* its user name, two databases whose second password is or is not the
\* name of its database
ListEnvs ==
    { [EnvBase EXCEPT !.MSSQL_USER = "test", !.MSSQL_PASSWORD = p,
                      !.MSSQL_DATABASE = "foo"] : p \in {"test", "s3cret"} }
    \cup
    { [EnvBase EXCEPT !.multi = << Entry(MAINDB, "sa", p, "main"),
                                  Entry(REPORTINGDB, "reporter", q, "reports") >>] :
          p \in {"s3cret", "pw2"}, q \in {"pw2", "reports"} }

StatusKeys   == {maindb, reportingdb, nosuchdb, constructorKey}
StatusValues == {"connected", "error"}
StatusErrors == {"null", "Login failed"}

InitList ==
    /\ dbConfigs \in {loadDatabaseConfigs(e) : e \in ListEnvs}
    /\ connectionStatus = InitialStatus(dbConfigs)
    /\ pools = EmptyMap
    /\ created = <<>>
    /\ task = [t \in Tasks |-> IdleTask]
    /\ readOnly = FALSE
    /\ resourceCache = EmptyMap
    /\ timers = EmptyMap
    /\ query = <<>>
    /\ verdict = "none"
    /\ listed = NotListed
    /\ http = HttpIdle

\* updateConnectionStatus(dbKey, status, error) is called
UpdateStatus(dbKey, status, error) ==
    /\ connectionStatus' = updateConnectionStatus(connectionStatus, dbKey, status, error)
    /\ UNCHANGED <<dbConfigs, readOnly, resVars, pools, created, task, query, verdict, listed, http>>

\* listDatabases() is called and returns
ListDatabasesCall ==
    /\ listed' = listDatabases(dbConfigs, connectionStatus)
    /\ UNCHANGED <<cfgVars, resVars, pools, created, task, query, verdict, http>>

NextList ==
    \/ \E k \in StatusKeys, st \in StatusValues, e \in StatusErrors : UpdateStatus(k, st, e)
    \/ ListDatabasesCall

SpecList == InitList /\ [][NextList]_vars

\* The strings the text of a listDatabases() result holds as values
TextStrings(out) ==
    UNION { {out.configurations[i].server, out.configurations[i].database,
             out.configurations[i].user} : i \in DOMAIN out.configurations }
    \cup
    UNION { {out.connectionStatus[k].lastConnected, out.connectionStatus[k].lastError,
             out.connectionStatus[k].status} : k \in DOMAIN out.connectionStatus }

\* C5 as stated: the text of listDatabases() holds no configured password
\* value.
ListedHoldsNoPasswordValue ==
    listed.called =>
        \A i \in DOMAIN dbConfigs : dbConfigs[i].password \notin TextStrings(listed)

\* The configurations with every password replaced by the same string
Scrub(cfgs) == [i \in DOMAIN cfgs |-> [cfgs[i] EXCEPT !.password = "*"]]

\* C5 as amended: the text of listDatabases() has no password field and is
\* the text the same configurations give with any other passwords, whatever
\* the connection status.
ListedIgnoresPasswords ==
    listed.called =>
        /\ listed = listDatabases(Scrub(dbConfigs), listed.connectionStatus)
        /\ \A i \in DOMAIN listed.configurations :
               "password" \notin DOMAIN listed.configurations[i]

\* listDatabases() has returned for two databases with different passwords,
\* after a status update
ListedTwoDatabases ==
    /\ listed.called
    /\ Len(dbConfigs) = 2
    /\ dbConfigs[1].password # dbConfigs[2].password
    /\ \E k \in DOMAIN listed.connectionStatus :
           listed.connectionStatus[k].status # "initialized"

---------------------------------------------------------------------------
(* The pool cache: claims C11 to C13 *)

\* C11: the caller's getPool() has returned instance P, which is still open
\* and cached; its next call, getPool(firstKey), returns P.
OmittedKeySharesFirstKeyPool ==
    [][( /\ task[1].op = "getPool" /\ task[1].pc = "returned"
         /\ task[1].dbKey = Undefined
         /\ EntryOf(1) = task[1].pool
         /\ StartGetPool(1, dbConfigs[1].key) )
            => /\ task'[1].pc = "returned"
               /\ task'[1].pool = task[1].pool]_vars

\* C12: a failed connect throws out of getPool and stores nothing: the
\* cache is as it was and does not hold the failed instance, every cached
\* instance is open, and the caller's next call for a key without entry
\* constructs a new instance and connects it.
FailedConnectNotCached ==
    [][/\ \A t \in Tasks :
             (task[t].pc = "connecting" /\ task'[t].pc # "connecting"
                                         /\ created'[task[t].pool].state # "open")
                 => /\ task'[t].pc = "threw" /\ task'[t].res = "connect"
                    /\ pools' = pools
                    /\ \A k \in DOMAIN pools' : pools'[k] # task[t].pool
       /\ \A k \in DOMAIN pools' : created'[pools'[k]].state = "open"
       /\ \A t \in Tasks :
             ( /\ task[t].pc = "threw" /\ task[t].res = "connect"
               /\ task'[t] # task[t]
               /\ Get(pools, PoolKeyOf(task'[t].dbKey)) = 0 )
                 => /\ task'[t].pc = "connecting"
                    /\ task'[t].pool = Len(created) + 1
                    /\ created'[task'[t].pool].state = "connecting"]_vars

\* After a failed connect a later call has opened a new instance, now cached
OpenedAfterFailedConnect ==
    \E t \in Tasks, p \in DOMAIN created :
        /\ created[p].state = "failed"
        /\ task[t].pc = "returned"
        /\ task[t].pool > p
        /\ created[task[t].pool].state = "open"
        /\ EntryOf(t) = task[t].pool

\* C13: after a connect attempt of getPool the status of the key whose
\* settings were used tells the outcome: "connected" and a lastConnected
\* time once the newest instance is open, "error" and the message as
\* lastError once the caller's attempt has failed.
StatusReflectsConnect ==
    /\ (created # <<>> /\ created[Len(created)].state = "open")
           => LET st == connectionStatus[created[Len(created)].config]
              IN  st.status = "connected" /\ st.lastConnected # "null"
    /\ (task[1].op = "getPool" /\ task[1].pc = "threw" /\ task[1].res = "connect")
           => LET st == connectionStatus[ConfigOf(dbConfigs, task[1].dbKey).key]
              IN  st.status = "error" /\ st.lastError # "null"

---------------------------------------------------------------------------
(* The data access operations: claims C14, C16 and C19 *)

\* The message of the error a call ends with, as the pieces it is put
\* together from: validate prefixes "Validation failed", the catch of
\* readResource (resources.js line 101) prefixes "Database error: " to
\* whatever was thrown, the catch blocks of tools.js pass the message on
InnerMessage(res) ==
    CASE res = "validation" -> <<"Validation failed">>
      [] res = "blocked"    -> <<"Query contains potentially unsafe operations and was blocked for security">>
      [] res = "config"     -> <<"No database configuration found.">>
      [] res = "notfound"   -> <<"Table not found or has no columns">>
      [] OTHER              -> <<"driver message">>

ErrorMessage(op, res) ==
    IF op = "readResource" THEN <<"Database error: ">> \o InnerMessage(res)
    ELSE InnerMessage(res)

\* The call of task t has ended in a failure
Failed(t) == task[t].pc \in {"done", "threw"} /\ task[t].res \notin {"ok", "cached"}

\* C14: no data access operation ends by throwing to its caller
NoFailureEscapes ==
    \A t \in Tasks : IsOp(t) => task[t].pc # "threw"

\* C16: when the column query of getTableSchema is answered with zero rows
\* the call returns the error result that says the table was not found
ZeroColumnsIsNotFound ==
    [][(task[1].op = "getTableSchema" /\ StatementOK(1, 0))
          => /\ task'[1].pc = "done"
             /\ task'[1].res = "notfound"
             /\ Failed(1)']_vars

\* getTableSchema has returned the not-found error for a valid table name
NotFoundReturned ==
    /\ task[1].op = "getTableSchema" /\ task[1].pc = "done"
    /\ task[1].res = "notfound"
    /\ TableValid[task[1].arg] /\ task[1].sent = 1

\* C19: readResource called with a malformed URI does not end in a
\* database error
MalformedUriIsNotDatabaseError ==
    \A t \in Tasks :
        (task[t].op = "readResource" /\ Failed(t) /\ ~UriValid[task[t].arg])
            => Head(ErrorMessage(task[t].op, task[t].res)) # "Database error: "

---------------------------------------------------------------------------
(* SpecCache: overlapping listResources calls and the cache timers *)

CacheDbKeys == {Undefined, reportingdb}

NextCache ==
    \/ \E t \in Tasks, k \in CacheDbKeys : ListResourcesCall(t, k)
    \/ \E t \in Tasks : IsOp(t) /\ ConnectOK(t, "gotPool")
    \/ \E t \in Tasks : IsOp(t) /\ ConnectFail(t, Thrown(task[t].op))
    \/ \E t \in Tasks : SendStatement(t)
    \/ \E t \in Tasks : StatementOK(t, 1)
    \/ \E t \in Tasks : StatementFail(t)
    \/ \E t \in Tasks : Return(t)
    \/ \E k \in DOMAIN timers : TimerFire(k)

SpecCache == InitOps /\ [][NextCache]_vars

\* C17 (removal): a cached table list is removed only by the timer set
\* when it was stored, that is, not while a timer set later for its key is
\* still pending.  Timers of one delay fire in the order they were set, so
\* the list in the cache belongs to the last timer to fire.
CacheEntryKeptForItsWindow ==
    [][\A k \in DOMAIN resourceCache :
          k \notin DOMAIN resourceCache' => Get(timers', k) = 0]_vars

---------------------------------------------------------------------------
(* server/index.js: GET /health.  The getPool call for the i-th configured *)
(* key is task i.                                                          *)

\* Lines 179-185: the request arrives
HealthRequest ==
    /\ http.pc \in {"idle", "sent"}
    /\ task' = [t \in Tasks |-> IdleTask]
    /\ http' = IF Len(dbConfigs) = 0
               THEN [HttpIdle EXCEPT !.pc = "sent", !.route = "/health",
                                     !.status = 503, !.body = "error"]
               ELSE [HttpIdle EXCEPT !.pc = "calling", !.route = "/health", !.next = 1]
    /\ UNCHANGED <<cfgVars, resVars, query, verdict, listed, pools, created>>

\* Line 189: dbKeys.map calls getPool(key) for the next key; the calls are
\* made one after the other with nothing else running in between
HealthCall ==
    LET i == http.next
    IN  /\ http.pc = "calling"
        /\ GetPoolCall(i, [IdleTask EXCEPT !.op = "health", !.dbKey = dbConfigs[i].key],
                       "returned", "threw")
        /\ http' = [http EXCEPT !.next = i + 1,
                                !.pc = IF i = Len(dbConfigs) THEN "waiting" ELSE "calling"]
        /\ UNCHANGED <<cfgVars, resVars, query, verdict, listed, pools>>

\* What lines 192-217 make of the settled calls
HealthDatabases ==
    [k \in Range(Keys(dbConfigs)) |->
        IF task[IndexIn(k, Keys(dbConfigs))].pc = "returned" THEN "connected" ELSE "error"]

HealthSettled == \A i \in DOMAIN dbConfigs : task[i].pc \in {"returned", "threw"}

\* Promise.all in the place of Promise.allSettled: the first rejection goes
\* to the catch of line 218 and from there to errorHandler
HealthRespondAll ==
    /\ http.pc = "waiting"
    /\ \/ /\ \E i \in DOMAIN dbConfigs : task[i].pc = "threw"
          /\ http' = [http EXCEPT !.pc = "sent", !.status = 500,
                                  !.body = "error,path,timestamp"]
       \/ /\ \A i \in DOMAIN dbConfigs : task[i].pc = "returned"
          /\ http' = [http EXCEPT !.pc = "sent", !.status = 200, !.body = "ok",
                                  !.databases = HealthDatabases]
    /\ UNCHANGED <<cfgVars, resVars, query, verdict, listed, pools, created, task>>

\* Lines 188-217: every call has settled and the response is sent
HealthRespond ==
    /\ http.pc = "waiting"
    /\ HealthSettled
    /\ http' = [http EXCEPT !.pc = "sent",
                            !.status = IF \A k \in DOMAIN HealthDatabases :
                                             HealthDatabases[k] = "connected"
                                       THEN 200 ELSE 503,
                            !.body = IF \A k \in DOMAIN HealthDatabases :
                                           HealthDatabases[k] = "connected"
                                     THEN "ok" ELSE "error",
                            !.databases = HealthDatabases]
    /\ UNCHANGED <<cfgVars, resVars, query, verdict, listed, pools, created, task>>

InitHealth == InitKeys

NextHealth ==
    \/ HealthRequest
    \/ HealthCall
    \/ \E t \in Tasks : http.pc = "waiting" /\ ConnectOK(t, "returned")
    \/ \E t \in Tasks : http.pc = "waiting" /\ ConnectFail(t, "threw")
    \/ HealthRespond
    \/ \E p \in DOMAIN created : http.pc # "calling" /\ PoolClose(p)

SpecHealth == InitHealth /\ [][NextHealth]_vars

\* C15: the response of GET /health comes after exactly one getPool call
\* for each configured key and none else, reports each key by the outcome
\* of its own call, and is 200 "ok" exactly when every call succeeded and
\* 503 "error" exactly when one failed.
HealthReportsEachKey ==
    (http.route = "/health" /\ http.pc = "sent") =>
        /\ DOMAIN http.databases = Range(Keys(dbConfigs))
        /\ \A i \in DOMAIN dbConfigs :
              /\ task[i].op = "health" /\ task[i].gp = 1
              /\ task[i].dbKey = dbConfigs[i].key
              /\ http.databases[dbConfigs[i].key] =
                     IF task[i].pc = "returned" THEN "connected" ELSE "error"
        /\ \A t \in Tasks \ DOMAIN dbConfigs : task[t] = IdleTask
        /\ (http.status = 200 /\ http.body = "ok")
              <=> \A i \in DOMAIN dbConfigs : task[i].pc = "returned"
        /\ (http.status = 503 /\ http.body = "error")
              <=> \E i \in DOMAIN dbConfigs : task[i].pc = "threw"

\* The health response for maindb connected and reportingdb failing
HealthPartialFailure ==
    /\ http.route = "/health" /\ http.pc = "sent" /\ http.status = 503
    /\ DOMAIN http.databases = {maindb, reportingdb}
    /\ http.databases[maindb] = "connected"
    /\ http.databases[reportingdb] = "error"

---------------------------------------------------------------------------
(* server/index.js: the routes of the data access operations *)

Routes == {"/resources", "/resource", "/execute-sql", "/get-table-schema"}

\* The dbKey values of a request's query string and body
HttpKeys == {Undefined, reportingdb, <<"d","b","-","1">>}

\* The request's uri, query or table: what the handler reads from the request
ParamOf(route, i) ==
    CASE route = "/resource"         -> UriInputs[i]
      [] route = "/execute-sql"      -> QueryInputs[i]
      [] route = "/get-table-schema" -> TableInputs[i]
      [] OTHER                       -> <<"-">>

ParamCount(route) ==
    CASE route = "/resource"         -> Len(UriInputs)
      [] route = "/execute-sql"      -> Len(QueryInputs)
      [] route = "/get-table-schema" -> Len(TableInputs)
      [] OTHER                       -> 1

\* validateDbKey, lines 31-45: the key it checks, and whether it calls next()
\* without an error
MiddlewareKey(qsKey, bodyKey) == IF Truthy(qsKey) THEN qsKey ELSE bodyKey
validateDbKey(qsKey, bodyKey) ==
    Truthy(MiddlewareKey(qsKey, bodyKey)) => dbKeyOK(MiddlewareKey(qsKey, bodyKey))

\* errorHandler, lines 20-28
errorHandler(req, statusCode) ==
    [req EXCEPT !.pc = "sent", !.status = IF statusCode # 0 THEN statusCode ELSE 500,
                !.body = "error,path,timestamp"]

\* A request arrives: the middleware runs, then the handler's test of its
\* parameter (lines 74, 127, 154)
HttpReceive(route, i, qsKey, bodyKey) ==
    LET req == [HttpIdle EXCEPT !.route = route, !.arg = i,
                                !.qsKey = qsKey, !.bodyKey = bodyKey]
    IN  /\ http.pc = "idle"
        /\ Ready(1)
        /\ http' = IF ~validateDbKey(qsKey, bodyKey) \/ ~Truthy(ParamOf(route, i))
                   THEN errorHandler(req, 400)
                   ELSE [req EXCEPT !.pc = "received"]
        /\ UNCHANGED <<cfgVars, resVars, query, verdict, listed, pools, created, task>>

\* The handler calls its operation: GET routes pass req.query.dbKey, POST
\* routes the dbKey of req.body
HttpHandle ==
    /\ http.pc = "received"
    /\ CASE http.route = "/resources"        -> ListResourcesCall(1, http.qsKey)
         [] http.route = "/resource"         -> ReadResourceCall(1, http.arg, http.qsKey)
         [] http.route = "/execute-sql"      -> ExecuteSqlCall(1, http.arg, http.bodyKey)
         [] http.route = "/get-table-schema" -> GetTableSchemaCall(1, http.arg, http.bodyKey)

\* The result of the operation has isError true (tools.js); the results of
\* listResources and readResource have no such member
IsErrorResult(r) == r.op \in {"executeSql", "getTableSchema"} /\ r.res # "ok"

\* A handler that sends every returned result without looking at isError
HttpRespondNoIsError ==
    /\ http.pc = "received"
    /\ task[1].pc \in {"done", "threw"}
    /\ http' = IF task[1].pc = "threw"
               THEN errorHandler([http EXCEPT !.res = task[1].res], 0)
               ELSE [http EXCEPT !.pc = "sent", !.res = task[1].res,
                                 !.status = 200, !.body = "result"]
    /\ task' = [task EXCEPT ![1] = IdleTask]
    /\ UNCHANGED <<cfgVars, resVars, query, verdict, listed, pools, created>>

\* The operation has ended and the handler answers: a thrown error goes to
\* errorHandler with no statusCode (lines 61-63, 83-85), an isError result
\* with statusCode 500 (lines 135-139, 162-166), anything else is sent
HttpRespond ==
    /\ http.pc = "received"
    /\ task[1].pc \in {"done", "threw"}
    /\ http' = IF task[1].pc = "threw"
               THEN errorHandler([http EXCEPT !.res = task[1].res], 0)
               ELSE IF IsErrorResult(task[1])
               THEN errorHandler([http EXCEPT !.res = task[1].res], 500)
               ELSE [http EXCEPT !.pc = "sent", !.res = task[1].res,
                                 !.status = 200, !.body = "result"]
    /\ task' = [task EXCEPT ![1] = IdleTask]
    /\ UNCHANGED <<cfgVars, resVars, query, verdict, listed, pools, created>>

\* The response is out; the server takes the next request
HttpEnd ==
    /\ http.pc = "sent"
    /\ http' = HttpIdle
    /\ UNCHANGED <<cfgVars, resVars, query, verdict, listed, pools, created, task>>

NextHttp ==
    \/ \E route \in Routes, qsKey \in HttpKeys, bodyKey \in HttpKeys :
          \E i \in 1..ParamCount(route) : HttpReceive(route, i, qsKey, bodyKey)
    \/ HttpHandle
    \/ IsOp(1) /\ ConnectOK(1, "gotPool")
    \/ IsOp(1) /\ ConnectFail(1, Thrown(task[1].op))
    \/ SendStatement(1)
    \/ \E rows \in 0..1 : StatementOK(1, rows)
    \/ StatementFail(1)
    \/ HttpRespond
    \/ HttpEnd
    \/ \E k \in DOMAIN timers : TimerFire(k)

SpecHttp == InitOps /\ [][NextHttp]_vars

\* C18: when listing the tables failed inside listResources, GET /resources
\* answers 500 with the error body
ResourcesFailureIs500 ==
    ( /\ http.pc = "sent" /\ http.route = "/resources"
      /\ http.res \in {"config", "connect", "query"} )
        => http.status = 500 /\ http.body = "error,path,timestamp"

\* C20 as stated: 400 exactly when the body has no query, 500 when the
\* query was blocked or the database failed, 200 otherwise, and the error
\* body on every error
ExecuteSqlStatusAsStated ==
    (http.pc = "sent" /\ http.route = "/execute-sql") =>
        LET noQuery == ~Truthy(QueryInputs[http.arg])
            failed  == http.res \in {"blocked", "config", "connect", "query"}
        IN  /\ http.status = 400 <=> noQuery
            /\ (~noQuery /\ failed) => http.status = 500
            /\ (~noQuery /\ ~failed) => http.status = 200
            /\ http.status # 200 => http.body = "error,path,timestamp"

\* C20 as amended: 400 exactly when the body has no query or the key the
\* middleware checks is invalid, 500 exactly when executeSql was called and
\* returned an error result (validation failure of its own, blocked query,
\* no pool, failed statement), 200 with the result exactly when it
\* succeeded, and the error body on every error
ExecuteSqlStatus ==
    (http.pc = "sent" /\ http.route = "/execute-sql") =>
        LET noQuery == ~Truthy(QueryInputs[http.arg])
            badKey  == ~validateDbKey(http.qsKey, http.bodyKey)
            failed  == http.res \in {"validation", "blocked", "config", "connect", "query"}
        IN  /\ http.status \in {200, 400, 500}
            /\ http.status = 400 <=> (noQuery \/ badKey)
            /\ http.status = 500 <=> (~noQuery /\ ~badKey /\ failed)
            /\ http.status = 200 <=> (~noQuery /\ ~badKey /\ http.res = "ok")
            /\ http.status # 200 => http.body = "error,path,timestamp"
            /\ http.status = 200 => http.body = "result"

\* POST /execute-sql has answered 500 for a query that executeSql found too
\* long
ExecuteSqlAnswered ==
    /\ http.pc = "sent" /\ http.route = "/execute-sql"
    /\ Truthy(QueryInputs[http.arg])
    /\ http.status = 500 /\ http.res = "validation"

---------------------------------------------------------------------------
(* SpecDefault: listDatabases and getPool with the key omitted *)

\* Multi-database mode with MSSQL_MAINDB_* and then MSSQL_UNDEFINED_*: the
\* second database gets the key "undefined"
UNDEFINED == <<"U","N","D","E","F","I","N","E","D">>
EnvUndefinedKey ==
    [EnvBase EXCEPT !.multi = << Entry(MAINDB, "sa", "s3cret", "main"),
                                 Entry(UNDEFINED, "sa", "s3cret", "other") >>]

InitDefault ==
    /\ dbConfigs \in {loadDatabaseConfigs(e) : e \in {EnvSingle, EnvMulti, EnvUndefinedKey}}
    /\ connectionStatus = InitialStatus(dbConfigs)
    /\ pools = EmptyMap
    /\ created = <<>>
    /\ task = [t \in Tasks |-> IdleTask]
    /\ readOnly = FALSE
    /\ resourceCache = EmptyMap
    /\ timers = EmptyMap
    /\ query = <<>>
    /\ verdict = "none"
    /\ listed = NotListed
    /\ http = HttpIdle

NextDefault ==
    \/ ListDatabasesCall
    \/ \E k \in {Undefined, maindb} : StartGetPool(1, k)
    \/ task[1].op = "getPool" /\ ConnectOK(1, "returned")
    \/ task[1].op = "getPool" /\ ConnectFail(1, "threw")
    \/ \E p \in DOMAIN created : PoolClose(p)

SpecDefault == InitDefault /\ [][NextDefault]_vars

\* C21: listDatabases() reports the configured keys in their order, their
\* number, and the first key as the default; a pool that getPool() hands
\* out for an omitted key is one of that default database; and the call
\* leaves the pools, the cache, the calls in flight and the connection
\* status alone.
ListedDefaultIsPoolDefault ==
    [][/\ listed'.called
            => /\ listed'.availableDatabases = Keys(dbConfigs)
               /\ listed'.count = Len(dbConfigs)
               /\ listed'.defaultDatabase = dbConfigs[1].key
       /\ (listed'.called /\ task'[1].dbKey = Undefined /\ task'[1].pool # 0)
            => created'[task'[1].pool].config = listed'.defaultDatabase
       /\ ListDatabasesCall
            => UNCHANGED <<pools, created, task, connectionStatus>>]_vars

---------------------------------------------------------------------------
(* The keys of the connection-status map *)

\* C22: the keys of the connection-status map are the configured database
\* keys in every state: a call of updateConnectionStatus adds none and
\* nothing removes one.
StatusKeysAreConfigKeys ==
    DOMAIN connectionStatus = Range(Keys(dbConfigs))

---------------------------------------------------------------------------
(* The close wrapper and the entries of other instances *)

\* C23: close() on an instance never removes a cache entry that holds a
\* different instance that is still open.
CloseRemovesOwnEntryOnly ==
    [][\A p \in DOMAIN created :
          PoolClose(p) =>
              \A q \in DOMAIN created :
                  (q # p /\ created[q].state = "open"
                         /\ Get(pools, created[q].poolKey) = q)
                      => Get(pools', created[q].poolKey) = q]_vars

---------------------------------------------------------------------------
(* listResources: a failed call and the cache *)

\* C24: a listResources call that fails, for an invalid dbKey, a failed
\* connect or a failed catalog query, returns (the empty list) without
\* throwing and leaves the resource cache and the timers as they were; and a
\* call for a key without cache entry is never answered from the cache: for
\* a valid key it goes on to getPool.
FailedListingIsNotCached ==
    [][/\ (/\ task'[1] # task[1]
           /\ task'[1].op = "listResources"
           /\ task'[1].pc \in {"done", "threw"}
           /\ task'[1].res \notin {"ok", "cached"})
          => /\ task'[1].pc = "done"
             /\ resourceCache' = resourceCache
             /\ timers' = timers
       /\ \A k \in OpDbKeys :
             (ListResourcesCall(1, k) /\ PoolKeyOf(k) \notin DOMAIN resourceCache)
                => /\ task'[1].res # "cached"
                   /\ OptionalDbKeyOK(k) => task'[1].pc \in {"connecting", "gotPool"}]_vars

\* A listResources call has failed in its catalog query and the key has no
\* cache entry and no timer
ListingFailedUncached ==
    /\ task[1].op = "listResources"
    /\ task[1].pc = "done"
    /\ task[1].res = "query"
    /\ PoolKeyOf(task[1].dbKey) \notin DOMAIN resourceCache
    /\ PoolKeyOf(task[1].dbKey) \notin DOMAIN timers

---------------------------------------------------------------------------
(* The dbKey the middleware checks and the dbKey the handler uses *)

\* The dbKey the route's handler passes to its operation: req.query.dbKey
\* on the GET routes (lines 56, 73), the body's dbKey on the POST routes
\* (lines 126, 153)
HandlerKey(req) ==
    IF req.route \in {"/resources", "/resource"} THEN req.qsKey ELSE req.bodyKey

\* C25: a request whose handler's dbKey is non-empty and fails dbKeySchema
\* is answered with status 400 and its operation is never called.
MiddlewareChecksHandlerKey ==
    (http.pc # "idle" /\ Truthy(HandlerKey(http)) /\ ~dbKeyOK(HandlerKey(http)))
        => (http.pc = "sent" /\ http.status = 400 /\ http.res = "none")

===========================================================================
